---- MODULE Spec2Model ----
(***************************************************************************)
(* Model of the OMR evaluation backend (server/app): the question paper    *)
(* and result tables, the uploads directory, and the request handlers of   *)
(* routes/questions.py, routes/evaluate.py and services/omr_service.py.    *)
(*                                                                         *)
(* Every handler opens its own database session (database.get_db), so the  *)
(* tables are shared state and each committed statement is one step.  The  *)
(* question paper handlers contain no suspension point and are one step    *)
(* each.  evaluate_omr_sheet is three steps: the upload is awaited and     *)
(* written, then evaluate_omr reads the paper, then the Result is inserted *)
(* and committed; no transaction or lock spans the read and the insert     *)
(* (the SELECT runs outside a write transaction), so statements of other   *)
(* sessions on the same database file may fall between them.               *)
(*                                                                         *)
(* An evaluation request that stages an upload is identified with the      *)
(* random name save_upload_file gives its file: request r writes file r.   *)
(* Names and uuids are opaque, so they are handed out in a fixed order.    *)
(***************************************************************************)
EXTENDS Integers, Sequences, FiniteSets, TLC

\* ------------------------------------------------------------------ bounds
MaxFiles == 2        \* evaluation requests that stage an upload in a behaviour
MaxQuestions == 1    \* longest "questions" list in a details document

\* the values uuid.uuid4() yields, in the order it yields them
PaperIdSeq == <<"P1", "P2">>
PaperIds == {PaperIdSeq[i] : i \in 1..Len(PaperIdSeq)}
Rolls == {"R1", "R2"}               \* roll_number form values
\* An uploaded part: its declared content type ("none": the part declares
\* none) and what happens when save_upload_file stores it: "ok",
\* "open_error" (aiofiles.open raises, no file is created) or "write_error"
\* (read or write raises after the file was created).
UploadFiles ==
    {[content_type |-> "image/png", save |-> s] :
        s \in {"ok", "open_error", "write_error"}}
    \cup {[content_type |-> c, save |-> "ok"] : c \in {"text/plain", "none"}}
Req == 1..MaxFiles

\* ------------------------------------------------------- details documents
\* A JSON value sent as `details`.  type is the JSON type of the value; for
\* an object, keys is the set of its keys among the two the validator looks
\* at and questions describes the value under "questions" (a list of len
\* entries, or a number, which has no len()).  For a string, parses tells
\* whether json.loads accepts the text and keys/questions describe the
\* object it yields.
ListValues == {[kind |-> "list", len |-> n] : n \in 0..MaxQuestions}
QValues == ListValues \cup {[kind |-> "number", len |-> 0]}
Keys == {"questions", "answers"}
EmptyList == [kind |-> "list", len |-> 0]

Object(keys, q) ==
    [type |-> "object", parses |-> TRUE, keys |-> keys,
     questions |-> IF "questions" \in keys THEN q ELSE EmptyList]

JsonValues ==
    {Object(Keys, q) : q \in QValues}
    \cup {Object(k, EmptyList) : k \in SUBSET Keys}
    \cup {[type |-> "string", parses |-> p, keys |-> k, questions |-> EmptyList] :
            p \in BOOLEAN, k \in {{}, Keys}}
    \cup {[type |-> "array", parses |-> TRUE, keys |-> {}, questions |-> EmptyList]}

\* json.loads(v) for a string v that parses
json_loads(v) == Object(v.keys, v.questions)

\* The pydantic field `details: Dict`: the value must be a JSON object.
FieldIsDict(v) == v.type = "object"

\* validate_details with required_fields = ["questions"]
validate_details_questions_only(v) ==
    IF v.type = "object" /\ "questions" \in v.keys
    THEN [ok |-> TRUE, value |-> v]
    ELSE [ok |-> FALSE, value |-> v]

\* QuestionPaperBase.validate_details: [ok, value]
validate_details(v) ==
    LET parsed == IF v.type = "object" THEN [ok |-> TRUE, value |-> v]
                  ELSE IF v.type = "string" /\ v.parses
                       THEN [ok |-> TRUE, value |-> json_loads(v)]
                       ELSE [ok |-> FALSE, value |-> v]
    IN  IF ~parsed.ok THEN parsed
        ELSE IF \E field \in Keys : field \notin parsed.value.keys
             THEN [ok |-> FALSE, value |-> v]
             ELSE parsed

\* QuestionPaperCreate(details=v): the field type, then the validator
QuestionPaperCreate(v) ==
    IF ~FieldIsDict(v) THEN [ok |-> FALSE, value |-> v] ELSE validate_details(v)

\* ------------------------------------------------------------------- state
VARIABLES
    question_papers,   \* table question_papers: rows [id, details] in rowid order
    results,           \* table results: rows [id, roll_number, question_paper_id, marks]
    issued,            \* number of ids uuid4 has produced so far
    uploads,           \* files present in the uploads directory
    slot,              \* the evaluation requests that stage an upload
    resp               \* the response sent by the last step (op "none": no response)

vars == <<question_papers, results, issued, uploads, slot, resp>>

\* A request not yet received, and one that has been answered
Idle == [pc |-> "idle", roll_number |-> "", question_paper_id |-> "",
         content_type |-> "", file_path |-> 0, marks |-> 0]
Done == [pc |-> "done", roll_number |-> "", question_paper_id |-> "",
         content_type |-> "", file_path |-> 0, marks |-> 0]

\* A response: the handler, the HTTP status, what raised the error ("" for
\* a success), the id of the paper created or deleted, the Result row
\* returned (id 0: none), and for an evaluation the declared content type of
\* the upload, the file it staged (0: none) and whether that file was left
\* behind by a failed os.remove in cleanup_file.
NoResult == [id |-> 0, roll_number |-> "", question_paper_id |-> "", marks |-> 0]

NoResp == [op |-> "none", status |-> 0, cause |-> "", paper |-> "",
           result |-> NoResult, content_type |-> "", file_path |-> 0,
           cleanup_failed |-> FALSE]

Response(op, status, cause, paper) ==
    [op |-> op, status |-> status, cause |-> cause, paper |-> paper,
     result |-> NoResult, content_type |-> "", file_path |-> 0,
     cleanup_failed |-> FALSE]

EvalResponse(status, cause, result, content_type, file, cleanup_failed) ==
    [op |-> "evaluate", status |-> status, cause |-> cause, paper |-> "",
     result |-> result, content_type |-> content_type, file_path |-> file,
     cleanup_failed |-> cleanup_failed]

Range(s) == {s[i] : i \in 1..Len(s)}

StoredPaperIds == {row.id : row \in Range(question_papers)}
ResultIds == {row.id : row \in Range(results)}

Init ==
    /\ question_papers = <<>>
    /\ results = <<>>
    /\ issued = 0
    /\ uploads = {}
    /\ slot = [r \in Req |-> Idle]
    /\ resp = NoResp

\* ------------------------------------------------- question paper handlers
\* db.query(QuestionPaper).filter(id == pid).first()
HasPaper(pid) == pid \in StoredPaperIds
PaperDetails(pid) == (CHOOSE row \in Range(question_papers) : row.id = pid).details

\* A delete without the cascade: the results stay
CascadeDelete_none(pid) == results

\* A delete whose cascade is not restricted to the paper's own results
CascadeDelete_all(pid) == <<>>

\* The rows left in `results` when the paper pid is deleted: the relationship
\* QuestionPaper.results has cascade "all, delete-orphan", so the session
\* deletes every Result whose question_paper_id is pid with the paper.
CascadeDelete(pid) ==
    SelectSeq(results, LAMBDA row : row.question_paper_id # pid)

\* The status the question paper handlers give a failed commit.
QuestionCommitError == 400

\* POST /questions.  A body the schema rejects is answered 422 by the
\* framework before the handler runs.
create_question_paper(raw, commit_fails) ==
    LET v == QuestionPaperCreate(raw) IN
    /\ IF ~v.ok
       THEN /\ resp' = Response("create", 422, "validation", "")
            /\ UNCHANGED <<question_papers, issued>>
       ELSE IF commit_fails
       THEN /\ resp' = Response("create", QuestionCommitError, "commit", "")
            /\ UNCHANGED <<question_papers, issued>>
       ELSE /\ issued < Len(PaperIdSeq)
            /\ LET id == PaperIdSeq[issued + 1] IN
                 /\ question_papers' =
                        Append(question_papers, [id |-> id, details |-> v.value])
                 /\ resp' = Response("create", 201, "", id)
            /\ issued' = issued + 1
    /\ UNCHANGED <<results, uploads, slot>>

\* PUT /questions/{question_paper_id}
update_question_paper(pid, raw, commit_fails) ==
    LET v == QuestionPaperCreate(raw) IN
    /\ IF ~v.ok
       THEN /\ resp' = Response("update", 422, "validation", "")
            /\ UNCHANGED question_papers
       ELSE IF ~HasPaper(pid)
       THEN /\ resp' = Response("update", 404, "not_found", "")
            /\ UNCHANGED question_papers
       ELSE IF commit_fails
       THEN /\ resp' = Response("update", QuestionCommitError, "commit", "")
            /\ UNCHANGED question_papers
       ELSE /\ question_papers' =
                   [i \in 1..Len(question_papers) |->
                       IF question_papers[i].id = pid
                       THEN [id |-> pid, details |-> v.value]
                       ELSE question_papers[i]]
            /\ resp' = Response("update", 200, "", "")
    /\ UNCHANGED <<results, issued, uploads, slot>>

\* DELETE /questions/{question_paper_id}
delete_question_paper(pid, commit_fails) ==
    /\ IF ~HasPaper(pid)
       THEN /\ resp' = Response("delete", 404, "not_found", "")
            /\ UNCHANGED <<question_papers, results>>
       ELSE IF commit_fails
       THEN /\ resp' = Response("delete", QuestionCommitError, "commit", "")
            /\ UNCHANGED <<question_papers, results>>
       ELSE /\ question_papers' =
                   SelectSeq(question_papers, LAMBDA row : row.id # pid)
            /\ results' = CascadeDelete(pid)
            /\ resp' = Response("delete", 200, "", pid)
    /\ UNCHANGED <<issued, uploads, slot>>

\* GET /questions/{question_paper_id}: the status of the answer
get_question_paper(pid) == IF HasPaper(pid) THEN 200 ELSE 404

\* GET /evaluate/results/{result_id}: the status of the answer
get_result(result_id) == IF result_id \in ResultIds THEN 200 ELSE 404

\* ------------------------------------------------------ evaluation service
\* No content type check
IsImage_any(ct) == TRUE

\* omr_sheet.content_type.startswith('image/')
IsImage(ct) == ct = "image/png"

\* cleanup_file(file_path): the files left in the uploads directory; an
\* exception of os.remove is caught and printed.
cleanup_file(file_path, remove_fails) ==
    IF file_path \in uploads /\ ~remove_fails
    THEN uploads \ {file_path}
    ELSE uploads

\* question_paper.details.get("questions", [])
get_questions(details) ==
    IF "questions" \in details.keys THEN details.questions ELSE EmptyList

\* random.randint(a, b + 1)
randint_past(a, b) == a..(b + 1)

\* random.randint(a, b)
randint(a, b) == a..b

\* evaluate_omr without `except HTTPException: raise`: the 404 is caught by
\* `except Exception` and becomes a 500
evaluate_omr_error_wrapped(pid) ==
    IF ~HasPaper(pid) THEN 500
    ELSE IF get_questions(PaperDetails(pid)).kind # "list" THEN 500
    ELSE 0

\* evaluate_omr: the status of the HTTPException it raises (0: it returns
\* marks).  len() of a value that is no list raises TypeError, which the
\* `except Exception` clause turns into a 500; the 404 is re-raised as it is.
evaluate_omr_error(pid) ==
    IF ~HasPaper(pid) THEN 404
    ELSE IF get_questions(PaperDetails(pid)).kind # "list" THEN 500
    ELSE 0

\* The id SQLite gives a new row of `results` (INTEGER PRIMARY KEY): one more
\* than the largest id in the table.
NextResultId ==
    IF results = <<>> THEN 1
    ELSE 1 + (CHOOSE m \in ResultIds : \A i \in ResultIds : i <= m)

\* POST /evaluate, up to the end of save_upload_file.  r is the next
\* request to stage an upload; a request that is answered before a file is
\* created uses up no file name.
evaluate_omr_sheet_begin(r, roll, pid, omr_sheet) ==
    LET ct == omr_sheet.content_type
        file_path == r
    IN
    /\ slot[r].pc = "idle"
    /\ \A q \in Req : q < r => slot[q].pc # "idle"
    /\ IF ct = "none"
       THEN \* None.startswith raises AttributeError outside the try block:
            \* the general exception handler answers 500
            /\ resp' = EvalResponse(500, "unhandled", NoResult, ct, 0, FALSE)
            /\ UNCHANGED <<uploads, slot>>
       ELSE IF ~IsImage(ct)
       THEN /\ resp' = EvalResponse(400, "content_type", NoResult, ct, 0, FALSE)
            /\ UNCHANGED <<uploads, slot>>
       ELSE CASE omr_sheet.save = "open_error" ->
                   /\ resp' = EvalResponse(500, "save", NoResult, ct, 0, FALSE)
                   /\ UNCHANGED <<uploads, slot>>
              [] omr_sheet.save = "write_error" ->
                   /\ uploads' = uploads \cup {file_path}
                   /\ slot' = [slot EXCEPT ![r] = Done]
                   /\ resp' = EvalResponse(500, "save", NoResult, ct, file_path, FALSE)
              [] OTHER ->
                   /\ uploads' = uploads \cup {file_path}
                   /\ slot' = [slot EXCEPT ![r] =
                                 [pc |-> "saved", roll_number |-> roll,
                                  question_paper_id |-> pid, content_type |-> ct,
                                  file_path |-> file_path, marks |-> 0]]
                   /\ resp' = NoResp
    /\ UNCHANGED <<question_papers, results, issued>>

\* evaluate_omr(file_path, question_paper_id, db), with its finally clause
evaluate_omr(r, remove_fails) ==
    /\ slot[r].pc = "saved"
    /\ LET pid == slot[r].question_paper_id
           file_path == slot[r].file_path
           err == evaluate_omr_error(pid)
           left_behind == remove_fails /\ file_path \in uploads
       IN  /\ uploads' = cleanup_file(file_path, remove_fails)
           /\ IF err # 0
              THEN /\ slot' = [slot EXCEPT ![r] = Done]
                   /\ resp' = EvalResponse(err, IF err = 404 THEN "not_found" ELSE "scoring",
                                           NoResult, slot[r].content_type,
                                           file_path, left_behind)
              ELSE \E marks \in randint(0, get_questions(PaperDetails(pid)).len) :
                     /\ slot' = [slot EXCEPT ![r].pc = "scored", ![r].marks = marks]
                     /\ resp' = NoResp
    /\ UNCHANGED <<question_papers, results, issued>>

\* The rest of evaluate_omr_sheet: db.add(result), db.commit().  The
\* database connection is opened without PRAGMA foreign_keys, so SQLite does
\* not check question_paper_id against question_papers.  The upload was
\* handed to cleanup_file by evaluate_omr: if it is still there, os.remove
\* had raised.
evaluate_omr_sheet_commit(r, commit_fails) ==
    /\ slot[r].pc = "scored"
    /\ LET result == [id |-> NextResultId,
                      roll_number |-> slot[r].roll_number,
                      question_paper_id |-> slot[r].question_paper_id,
                      marks |-> slot[r].marks]
           file_path == slot[r].file_path
           ct == slot[r].content_type
       IN  IF commit_fails
           THEN /\ resp' = EvalResponse(500, "commit", NoResult, ct, file_path,
                                        file_path \in uploads)
                /\ UNCHANGED results
           ELSE /\ results' = Append(results, result)
                /\ resp' = EvalResponse(200, "", result, ct, file_path,
                                        file_path \in uploads)
    /\ slot' = [slot EXCEPT ![r] = Done]
    /\ UNCHANGED <<question_papers, issued, uploads>>

\* --------------------------------------------------------------- listings
\* query.offset(skip).limit(limit).all() on SQLite: a negative OFFSET counts
\* as 0 and a negative LIMIT means no limit.
offset_limit(rows, skip, limit) ==
    LET first == IF skip < 0 THEN 1 ELSE skip + 1
        last == IF limit < 0 \/ first + limit - 1 > Len(rows)
                THEN Len(rows) ELSE first + limit - 1
    IN  IF first > last THEN <<>> ELSE SubSeq(rows, first, last)

\* GET /questions
get_question_papers(skip, limit) == offset_limit(question_papers, skip, limit)

\* The rows of `results` the filters of GET /evaluate/results keep; an empty
\* (or absent) parameter does not filter.
filter_results(roll, pid) ==
    SelectSeq(results, LAMBDA row :
        /\ (roll # "" => row.roll_number = roll)
        /\ (pid # "" => row.question_paper_id = pid))

\* GET /evaluate/results
get_results(roll, pid, skip, limit) == offset_limit(filter_results(roll, pid), skip, limit)

\* -------------------------------------------------------------- behaviours
Next ==
    \/ \E raw \in JsonValues, f \in BOOLEAN : create_question_paper(raw, f)
    \/ \E pid \in PaperIds, raw \in JsonValues, f \in BOOLEAN :
          update_question_paper(pid, raw, f)
    \/ \E pid \in PaperIds, f \in BOOLEAN : delete_question_paper(pid, f)
    \/ \E r \in Req, roll \in Rolls, pid \in PaperIds, omr_sheet \in UploadFiles :
          evaluate_omr_sheet_begin(r, roll, pid, omr_sheet)
    \/ \E r \in Req, f \in BOOLEAN : evaluate_omr(r, f)
    \/ \E r \in Req, f \in BOOLEAN : evaluate_omr_sheet_commit(r, f)

Spec == Init /\ [][Next]_vars

\* ------------------------------------------------------------- properties
Steps(r) == slot'[r] # slot[r]
StoreUnchanged == question_papers' = question_papers /\ results' = results

\* C1: every stored question paper has details that are a mapping with both
\* keys "questions" and "answers", and a create or update request that
\* fails validation leaves the stored papers and results as they were.
C1_DetailsWellFormed ==
    /\ [](\A row \in Range(question_papers) :
             /\ row.details.type = "object"
             /\ Keys \subseteq row.details.keys)
    /\ [][(resp'.op \in {"create", "update"} /\ resp'.cause = "validation")
            => StoreUnchanged]_vars

C1_Witness ==
    /\ resp.op = "update"
    /\ resp.cause = "validation"
    /\ question_papers # <<>>

\* C2: a successful delete of paper pid removes the paper and every Result
\* that referenced it in one step, after which reading the paper and each
\* of those results by id answers 404; the other papers and the results of
\* other papers stay as they were.
C2_DeleteCascades ==
    [][\A pid \in PaperIds :
         (resp'.op = "delete" /\ resp'.status = 200 /\ resp'.paper = pid) =>
            /\ HasPaper(pid)
            /\ get_question_paper(pid)' = 404
            /\ \A row \in Range(results) :
                  IF row.question_paper_id = pid
                  THEN get_result(row.id)' = 404
                  ELSE row \in Range(results')
            /\ Range(results') \subseteq Range(results)
            /\ \A row \in Range(question_papers) :
                  row.id # pid => row \in Range(question_papers')]_vars

C2_Witness ==
    /\ resp.op = "delete"
    /\ resp.status = 200
    /\ Len(results) = 1
    /\ results[1].id = 2

\* C3: the question_paper_id of every stored Result is the id of a stored
\* question paper.
C3_NoOrphanResult ==
    \A row \in Range(results) : HasPaper(row.question_paper_id)

\* C4: when an evaluation request that staged an upload has ended, the file
\* is gone from the uploads directory, unless os.remove itself failed.
C4_StagedFileRemoved ==
    (resp.op = "evaluate" /\ resp.file_path # 0 /\ ~resp.cleanup_failed)
        => resp.file_path \notin uploads

\* C5: when evaluate_omr finds no paper with the requested id, the request
\* ends there with a 404 and the results table is as it was when the
\* request started (the step before it, the upload, does not touch it).
C5_UnknownPaperNotFound ==
    [][\A r \in Req :
         /\ (slot[r].pc = "saved" /\ Steps(r)
               /\ ~HasPaper(slot[r].question_paper_id))
            => (/\ resp'.op = "evaluate"
                /\ resp'.status = 404
                /\ slot'[r].pc = "done"
                /\ results' = results)
         /\ (slot[r].pc = "idle" /\ Steps(r)) => results' = results]_vars

C5_Witness ==
    /\ resp.op = "evaluate"
    /\ resp.status = 404
    /\ results # <<>>

\* C6: an evaluation request whose upload declares a content type that does
\* not start with image/ is answered 400 and changes neither the results,
\* nor the uploads directory, nor any request in flight; no request gets
\* past the content type check with such an upload.
C6_NonImageRejected ==
    /\ [][(resp'.op = "evaluate" /\ resp'.content_type = "text/plain")
            => (/\ resp'.status = 400
                /\ UNCHANGED <<results, uploads, slot>>)]_vars
    /\ [](\A r \in Req : slot[r].content_type # "text/plain")

C6_Witness ==
    /\ resp.op = "evaluate"
    /\ resp.status = 400
    /\ resp.content_type = "text/plain"
    /\ results # <<>>
    /\ uploads # {}

\* C7: a successful evaluation adds exactly one Result, with the request's
\* roll number and paper id, an id no stored Result has, and the marks drawn
\* by evaluate_omr, which lie between 0 and the length of the paper's
\* questions list at the time of scoring; stored marks are never negative
\* and stored ids are distinct.
C7_OneResultPerEvaluation ==
    /\ [][\A r \in Req :
            /\ (slot[r].pc = "saved" /\ slot'[r].pc = "scored") =>
                  /\ HasPaper(slot[r].question_paper_id)
                  /\ slot'[r].marks >= 0
                  /\ slot'[r].marks <=
                        PaperDetails(slot[r].question_paper_id).questions.len
            /\ (slot[r].pc = "scored" /\ Steps(r) /\ resp'.status = 200) =>
                  /\ Len(results') = Len(results) + 1
                  /\ SubSeq(results', 1, Len(results)) = results
                  /\ LET new == results'[Len(results')] IN
                       /\ new.roll_number = slot[r].roll_number
                       /\ new.question_paper_id = slot[r].question_paper_id
                       /\ new.marks = slot[r].marks
                       /\ new.id \notin ResultIds
                       /\ resp'.result = new]_vars
    /\ [](/\ \A row \in Range(results) : row.marks >= 0
          /\ Cardinality(ResultIds) = Len(results))

C7_Witness ==
    /\ resp.op = "evaluate"
    /\ resp.status = 200
    /\ Len(results) = 2
    /\ resp.result.marks = MaxQuestions
    /\ results[1].roll_number # results[2].roll_number

\* The records at positions k .. k+n-1 (counted from 0) of rows
PageOf(rows, k, n) ==
    LET at == {i \in 1..Len(rows) : k + 1 <= i /\ i <= k + n}
    IN  [j \in 1..Cardinality(at) |->
            rows[CHOOSE i \in at : Cardinality({h \in at : h < i}) = j - 1]]

PageArgs == -1..3

\* C8: for all integers skip = k and limit = n the listings return the
\* records at positions k .. k+n-1 of the (filtered) table, and so never
\* more than n of them.
C8_PageIsSlice ==
    \A k \in PageArgs, n \in PageArgs :
        /\ get_question_papers(k, n) = PageOf(question_papers, k, n)
        /\ get_question_papers(k, n) # <<>> => Len(get_question_papers(k, n)) <= n
        /\ \A roll \in Rolls \cup {""}, pid \in PaperIds \cup {""} :
              /\ get_results(roll, pid, k, n) = PageOf(filter_results(roll, pid), k, n)
              /\ get_results(roll, pid, k, n) # <<>>
                    => Len(get_results(roll, pid, k, n)) <= n

\* C9: when the commit of a store-mutating request raises, the stored
\* papers and results are those before the request and the response is a
\* 500.
C9_CommitFailureIs500 ==
    [][resp'.cause = "commit" => (resp'.status = 500 /\ StoreUnchanged)]_vars

====
